---- MODULE Spec2Model ----
(***************************************************************************)
(* Model of main.py: the record loaders, the two aggregations              *)
(* (compute_legislator_summary, compute_bill_summary), the preview         *)
(* enrichment (enrich_rows) and the control flow of the summarize and      *)
(* preview commands.                                                       *)
(*                                                                         *)
(* Text is a sequence of one-character strings, so that strip() and int()  *)
(* are computed rather than assumed.  Optional[T] is a sequence of length  *)
(* at most one: None is << >>, a present value v is << v >>.  A raw CSV    *)
(* row is a function from the column names of the header to Text.          *)
(***************************************************************************)
EXTENDS Integers, Sequences, FiniteSets

\* ---------------------------------------------------------------- bounds
\* rows read from legislators.csv in one run
MaxLegislators == 2
\* rows read from bills.csv in one run
MaxBills == 2
\* rows read from votes.csv in one run
MaxVotes == 2
\* rows read from vote_results.csv in one run
MaxResults == 2
\* rows shown by one preview (the --limit option, at least 1)
MaxPreviewRows == 1

\* ---------------------------------------------------------------- values
None == << >>
Some(v) == << v >>
IsNone(o) == o = << >>
Val(o) == o[1]

Digits == {"0", "1", "2", "3", "4", "5", "6", "7", "8", "9"}
DigitVal(c) == CASE c = "0" -> 0 [] c = "1" -> 1 [] c = "2" -> 2 [] c = "3" -> 3
                 [] c = "4" -> 4 [] c = "5" -> 5 [] c = "6" -> 6 [] c = "7" -> 7
                 [] c = "8" -> 8 [] c = "9" -> 9
Whitespace == {" "}

\* str.strip(): drop leading and trailing whitespace
RECURSIVE LStrip(_)
LStrip(s) == IF s # << >> /\ Head(s) \in Whitespace THEN LStrip(Tail(s)) ELSE s
RECURSIVE RStrip(_)
RStrip(s) == IF s # << >> /\ s[Len(s)] \in Whitespace
             THEN RStrip(SubSeq(s, 1, Len(s) - 1)) ELSE s
Strip(s) == RStrip(LStrip(s))

\* the value of a non-empty run of decimal digits
RECURSIVE DigitsValue(_)
DigitsValue(s) == IF s = << >> THEN 0
                  ELSE 10 * DigitsValue(SubSeq(s, 1, Len(s) - 1)) + DigitVal(s[Len(s)])
AllDigits(s) == s # << >> /\ \A i \in 1..Len(s) : s[i] \in Digits

\* int(text): surrounding whitespace and one sign are accepted
IntOf(s) ==
    LET t == Strip(s)
        signed == t # << >> /\ Head(t) \in {"+", "-"}
        body == IF signed THEN Tail(t) ELSE t
    IN  IF AllDigits(body)
        THEN Some(IF signed /\ Head(t) = "-" THEN 0 - DigitsValue(body) ELSE DigitsValue(body))
        ELSE None

\* parse_int(value): value is Optional[Text]
parse_int(value) ==
    IF IsNone(value) \/ Val(value) = << >> THEN None ELSE IntOf(Val(value))

\* row.get(col): Optional[Text]
Get(row, col) == IF col \in DOMAIN row THEN Some(row[col]) ELSE None
\* row.get(col, ""): Text
GetOrEmpty(row, col) == IF col \in DOMAIN row THEN row[col] ELSE << >>
\* Python truthiness of an Optional[Text]: None and "" are falsy
Truthy(o) == ~IsNone(o) /\ Val(o) # << >>
\* a or b
PyOr(a, b) == IF Truthy(a) THEN a ELSE b

\* the sponsor column probed under its three names
sponsor_id_raw(row) ==
    PyOr(PyOr(Get(row, "Primary Sponsor"), Get(row, "primary_sponsor")), Get(row, "sponsor_id"))

Unknown == <<"U", "n", "k", "n", "o", "w", "n">>

\* ---------------------------------------------------------------- records
Legislator(id, name) == [id |-> id, name |-> name]
Bill(id, title, sponsor_id) == [id |-> id, title |-> title, sponsor_id |-> sponsor_id]
Vote(id, bill_id) == [id |-> id, bill_id |-> bill_id]
VoteResult(legislator_id, vote_id, vote_type) ==
    [legislator_id |-> legislator_id, vote_id |-> vote_id, vote_type |-> vote_type]

\* ---------------------------------------------------------------- loaders
\* one iteration of the loop of load_legislators
load_legislators_row(legislators, row) ==
    LET leg_id == parse_int(Get(row, "id"))
    IN  IF IsNone(leg_id) THEN legislators
        ELSE Append(legislators, Legislator(Val(leg_id), Strip(GetOrEmpty(row, "name"))))

\* one iteration of the loop of load_bills
load_bills_row(bills, row) ==
    LET bill_id == parse_int(Get(row, "id"))
        sponsor_id == parse_int(sponsor_id_raw(row))
    IN  IF IsNone(bill_id) THEN bills
        ELSE Append(bills, Bill(Val(bill_id), Strip(GetOrEmpty(row, "title")), sponsor_id))

\* d[k] = v on a dict
DictSet(d, k, v) == [x \in DOMAIN d \cup {k} |-> IF x = k THEN v ELSE d[x]]
EmptyDict == [x \in {} |-> 0]

\* one iteration of the loop of load_votes
load_votes_row(votes, row) ==
    LET vote_id == parse_int(Get(row, "id"))
        bill_id == parse_int(Get(row, "bill_id"))
    IN  IF IsNone(vote_id) \/ IsNone(bill_id) THEN votes
        ELSE DictSet(votes, Val(vote_id), Vote(Val(vote_id), Val(bill_id)))

\* one iteration of the loop of load_vote_results
load_vote_results_row(results, row) ==
    LET legislator_id == parse_int(Get(row, "legislator_id"))
        vote_id == parse_int(Get(row, "vote_id"))
        vote_type == parse_int(Get(row, "vote_type"))
    IN  IF IsNone(legislator_id) \/ IsNone(vote_id) \/ IsNone(vote_type) THEN results
        ELSE Append(results, VoteResult(Val(legislator_id), Val(vote_id), Val(vote_type)))

\* the loaders applied to the rows of a whole file
RECURSIVE load_legislators(_)
load_legislators(rows) ==
    IF rows = << >> THEN << >>
    ELSE load_legislators_row(load_legislators(SubSeq(rows, 1, Len(rows) - 1)), rows[Len(rows)])
RECURSIVE load_bills(_)
load_bills(rows) ==
    IF rows = << >> THEN << >>
    ELSE load_bills_row(load_bills(SubSeq(rows, 1, Len(rows) - 1)), rows[Len(rows)])
RECURSIVE load_votes(_)
load_votes(rows) ==
    IF rows = << >> THEN EmptyDict
    ELSE load_votes_row(load_votes(SubSeq(rows, 1, Len(rows) - 1)), rows[Len(rows)])
RECURSIVE load_vote_results(_)
load_vote_results(rows) ==
    IF rows = << >> THEN << >>
    ELSE load_vote_results_row(load_vote_results(SubSeq(rows, 1, Len(rows) - 1)), rows[Len(rows)])

\* ---------------------------------------------------------------- aggregation
\* a slip of SetDefaultAdd: d[k] = {v}, the set replaced
SetDefaultReplace(d, k, v) == [x \in DOMAIN d \cup {k} |-> IF x = k THEN {v} ELSE d[x]]

\* d.setdefault(k, set()).add(v)
SetDefaultAdd(d, k, v) ==
    [x \in DOMAIN d \cup {k} |-> IF x = k THEN (IF k \in DOMAIN d THEN d[k] ELSE {}) \cup {v}
                                  ELSE d[x]]
\* len(d.get(k, set()))
LenGet(d, k) == IF k \in DOMAIN d THEN Cardinality(d[k]) ELSE 0
\* votes.get(vote_id): Optional[Vote]
VotesGet(votes, vote_id) == IF vote_id \in DOMAIN votes THEN Some(votes[vote_id]) ELSE None

\* sorted(records, key=id): a stable sort, as Python's
RECURSIVE InsertById(_, _)
InsertById(sortedSeq, r) ==
    IF sortedSeq = << >> THEN << r >>
    ELSE IF sortedSeq[Len(sortedSeq)].id <= r.id THEN Append(sortedSeq, r)
    ELSE Append(InsertById(SubSeq(sortedSeq, 1, Len(sortedSeq) - 1), r), sortedSeq[Len(sortedSeq)])
\* a slip of SortedById: the records keyed by id first, one kept per id
RECURSIVE SortedUniqueById(_)
SortedUniqueById(records) ==
    IF records = << >> THEN << >>
    ELSE LET r == records[Len(records)]
             Other(x) == x.id # r.id
         IN  InsertById(SortedUniqueById(SelectSeq(SubSeq(records, 1, Len(records) - 1), Other)), r)

RECURSIVE SortedById(_)
SortedById(records) ==
    IF records = << >> THEN << >>
    ELSE InsertById(SortedById(SubSeq(records, 1, Len(records) - 1)), records[Len(records)])

\* a slip of legislator_tally_step: the vote id collected in place of the bill id
legislator_tally_step_by_vote(acc, result, votes) ==
    LET vote == VotesGet(votes, result.vote_id)
    IN  IF IsNone(vote) THEN acc
        ELSE IF result.vote_type = 1
        THEN [acc EXCEPT !.supported = SetDefaultAdd(@, result.legislator_id, Val(vote).id)]
        ELSE IF result.vote_type = 2
        THEN [acc EXCEPT !.opposed = SetDefaultAdd(@, result.legislator_id, Val(vote).id)]
        ELSE acc
\* a slip of legislator_tally_step: a result without a vote counted under its vote id
legislator_tally_step_unresolved(acc, result, votes) ==
    LET vote == VotesGet(votes, result.vote_id)
        bill_id == IF IsNone(vote) THEN result.vote_id ELSE Val(vote).bill_id
    IN  IF result.vote_type = 1
        THEN [acc EXCEPT !.supported = SetDefaultAdd(@, result.legislator_id, bill_id)]
        ELSE IF result.vote_type = 2
        THEN [acc EXCEPT !.opposed = SetDefaultAdd(@, result.legislator_id, bill_id)]
        ELSE acc

\* the loop of compute_legislator_summary over vote_results: the pair of dicts
\* (supported, opposed), legislator id -> set of bill ids
legislator_tally_step(acc, result, votes) ==
    LET vote == VotesGet(votes, result.vote_id)
    IN  IF IsNone(vote) THEN acc
        ELSE IF result.vote_type = 1
        THEN [acc EXCEPT !.supported = SetDefaultAdd(@, result.legislator_id, Val(vote).bill_id)]
        ELSE IF result.vote_type = 2
        THEN [acc EXCEPT !.opposed = SetDefaultAdd(@, result.legislator_id, Val(vote).bill_id)]
        ELSE acc
RECURSIVE legislator_tally(_, _, _)
legislator_tally(acc, vote_results, votes) ==
    IF vote_results = << >> THEN acc
    ELSE legislator_tally(legislator_tally_step(acc, Head(vote_results), votes),
                          Tail(vote_results), votes)

legislator_summary_row(legislator, tally) ==
    [id |-> legislator.id, name |-> legislator.name,
     num_supported_bills |-> LenGet(tally.supported, legislator.id),
     num_opposed_bills |-> LenGet(tally.opposed, legislator.id)]

\* a slip of compute_legislator_summary: rows for the legislators of the two dicts only
compute_legislator_summary_voters_only(legislators, vote_results, votes) ==
    LET tally == legislator_tally([supported |-> EmptyDict, opposed |-> EmptyDict],
                                  vote_results, votes)
        Voted(l) == l.id \in DOMAIN tally.supported \cup DOMAIN tally.opposed
        ordered == SelectSeq(SortedById(legislators), Voted)
    IN  [i \in 1..Len(ordered) |-> legislator_summary_row(ordered[i], tally)]

compute_legislator_summary(legislators, vote_results, votes) ==
    LET tally == legislator_tally([supported |-> EmptyDict, opposed |-> EmptyDict],
                                  vote_results, votes)
        ordered == SortedById(legislators)
    IN  [i \in 1..Len(ordered) |-> legislator_summary_row(ordered[i], tally)]

\* a slip of bill_tally_step: the dicts keyed by vote id in place of bill id
bill_tally_step_by_vote(acc, result, votes) ==
    LET vote == VotesGet(votes, result.vote_id)
    IN  IF IsNone(vote) THEN acc
        ELSE IF result.vote_type = 1
        THEN [acc EXCEPT !.supporters = SetDefaultAdd(@, Val(vote).id, result.legislator_id)]
        ELSE IF result.vote_type = 2
        THEN [acc EXCEPT !.opposers = SetDefaultAdd(@, Val(vote).id, result.legislator_id)]
        ELSE acc
\* a slip of bill_tally_step: every vote type but 1 taken as an oppose
bill_tally_step_else_opposes(acc, result, votes) ==
    LET vote == VotesGet(votes, result.vote_id)
    IN  IF IsNone(vote) THEN acc
        ELSE IF result.vote_type = 1
        THEN [acc EXCEPT !.supporters = SetDefaultAdd(@, Val(vote).bill_id, result.legislator_id)]
        ELSE [acc EXCEPT !.opposers = SetDefaultAdd(@, Val(vote).bill_id, result.legislator_id)]

\* the loop of compute_bill_summary over vote_results: the pair of dicts
\* (supporters, opposers), bill id -> set of legislator ids
bill_tally_step(acc, result, votes) ==
    LET vote == VotesGet(votes, result.vote_id)
    IN  IF IsNone(vote) THEN acc
        ELSE IF result.vote_type = 1
        THEN [acc EXCEPT !.supporters = SetDefaultAdd(@, Val(vote).bill_id, result.legislator_id)]
        ELSE IF result.vote_type = 2
        THEN [acc EXCEPT !.opposers = SetDefaultAdd(@, Val(vote).bill_id, result.legislator_id)]
        ELSE acc
RECURSIVE bill_tally(_, _, _)
bill_tally(acc, vote_results, votes) ==
    IF vote_results = << >> THEN acc
    ELSE bill_tally(bill_tally_step(acc, Head(vote_results), votes), Tail(vote_results), votes)

\* {leg.id: leg for leg in legislators}: the last legislator of an id wins
RECURSIVE legislator_by_id(_)
legislator_by_id(legislators) ==
    IF legislators = << >> THEN EmptyDict
    ELSE DictSet(legislator_by_id(SubSeq(legislators, 1, Len(legislators) - 1)),
                 legislators[Len(legislators)].id, legislators[Len(legislators)])

\* the sponsor name of a bill in the bill summary
summary_sponsor_name(bill, by_id) ==
    IF IsNone(bill.sponsor_id) THEN Unknown
    ELSE IF Val(bill.sponsor_id) \in DOMAIN by_id THEN by_id[Val(bill.sponsor_id)].name
    ELSE Unknown

bill_summary_row(bill, tally, by_id) ==
    [id |-> bill.id, title |-> bill.title,
     supporter_count |-> LenGet(tally.supporters, bill.id),
     opposer_count |-> LenGet(tally.opposers, bill.id),
     primary_sponsor |-> summary_sponsor_name(bill, by_id)]

compute_bill_summary(bills, legislators, vote_results, votes) ==
    LET tally == bill_tally([supporters |-> EmptyDict, opposers |-> EmptyDict],
                            vote_results, votes)
        by_id == legislator_by_id(legislators)
        ordered == SortedById(bills)
    IN  [i \in 1..Len(ordered) |-> bill_summary_row(ordered[i], tally, by_id)]

\* ---------------------------------------------------------------- enrichment
\* a value of an enriched row or of a table: a str or an int
StrCell(text) == [str |-> Some(text), int |-> None]
IntCell(n) == [str |-> None, int |-> Some(n)]

\* dict(row): a new record with the columns and values of the raw row
DictCopy(row) == [c \in DOMAIN row |-> StrCell(row[c])]
\* new_row[col] = cell
RowSet(new_row, col, cell) == [c \in DOMAIN new_row \cup {col} |-> IF c = col THEN cell ELSE new_row[c]]

\* {leg.id: leg.name for leg in load_legislators(path)}
RECURSIVE legislator_lookup(_)
legislator_lookup(legs) ==
    IF legs = << >> THEN EmptyDict
    ELSE DictSet(legislator_lookup(SubSeq(legs, 1, Len(legs) - 1)),
                 legs[Len(legs)].id, legs[Len(legs)].name)
\* {bill.id: bill for bill in load_bills(path)}
RECURSIVE bill_lookup(_)
bill_lookup(bs) ==
    IF bs = << >> THEN EmptyDict
    ELSE DictSet(bill_lookup(SubSeq(bs, 1, Len(bs) - 1)), bs[Len(bs)].id, bs[Len(bs)])

\* Python truthiness of an Optional[int]: None and 0 are falsy
TruthyInt(o) == ~IsNone(o) /\ Val(o) # 0

\* the sponsor name the preview of bills attaches to a row
enrich_sponsor_name(row, lookup) ==
    LET sponsor_id == parse_int(sponsor_id_raw(row))
    IN  IF TruthyInt(sponsor_id)
        THEN (IF Val(sponsor_id) \in DOMAIN lookup THEN lookup[Val(sponsor_id)] ELSE Unknown)
        ELSE Unknown

\* enrich of category "bills"
enrich_bill_row(row, lookup) ==
    RowSet(DictCopy(row), "sponsor_name", StrCell(enrich_sponsor_name(row, lookup)))

\* enrich of category "votes"
enrich_vote_row(row, bs) ==
    LET bill_id == parse_int(Get(row, "bill_id"))
        bill_title == IF ~IsNone(bill_id) /\ Val(bill_id) \in DOMAIN bs
                      THEN bs[Val(bill_id)].title ELSE Unknown
    IN  RowSet(DictCopy(row), "bill_title", StrCell(bill_title))

\* enrich of category "vote_results"
enrich_vote_result_row(row, lookup, bs, vs) ==
    LET legislator_id == parse_int(Get(row, "legislator_id"))
        vote_id == parse_int(Get(row, "vote_id"))
        vote == IF IsNone(vote_id) THEN None ELSE VotesGet(vs, Val(vote_id))
        bill_id == IF IsNone(vote) THEN None ELSE Some(Val(vote).bill_id)
        name == IF ~IsNone(legislator_id) /\ Val(legislator_id) \in DOMAIN lookup
                THEN lookup[Val(legislator_id)] ELSE Unknown
        r1 == RowSet(DictCopy(row), "legislator_name", StrCell(name))
        r2 == RowSet(r1, "bill_id", IF IsNone(bill_id) THEN StrCell(<< >>) ELSE IntCell(Val(bill_id)))
    IN  RowSet(r2, "bill_title",
               StrCell(IF ~IsNone(bill_id) /\ Val(bill_id) \in DOMAIN bs
                       THEN bs[Val(bill_id)].title ELSE Unknown))

\* enrich_rows(rows, category, data_dir): the new rows and extra_fields
enrich_rows(raw, cat, legs, bs, vs) ==
    IF cat = "bills"
    THEN [rows |-> [i \in 1..Len(raw) |-> enrich_bill_row(raw[i], legislator_lookup(legs))],
          extra_fields |-> <<"sponsor_name">>]
    ELSE IF cat = "votes"
    THEN [rows |-> [i \in 1..Len(raw) |-> enrich_vote_row(raw[i], bill_lookup(bs))],
          extra_fields |-> <<"bill_title">>]
    ELSE IF cat = "vote_results"
    THEN [rows |-> [i \in 1..Len(raw) |->
                      enrich_vote_result_row(raw[i], legislator_lookup(legs), bill_lookup(bs), vs)],
          extra_fields |-> <<"legislator_name", "bill_id", "bill_title">>]
    ELSE [rows |-> [i \in 1..Len(raw) |-> DictCopy(raw[i])], extra_fields |-> << >>]

\* ---------------------------------------------------------------- state
VARIABLES
    exists,           \* the input datasets whose file exists in data_dir
    pc,               \* the statements the command has still to run, the next one first
    nread,            \* rows the running loader has read from its file
    legislators,      \* List[Legislator] loaded
    bills,            \* List[Bill] loaded
    votes,            \* Dict[int, Vote] loaded
    vote_results,     \* List[VoteResult] loaded
    legislator_rows,  \* Optional: the result of compute_legislator_summary
    bill_rows,        \* Optional: the result of compute_bill_summary
    outputs,          \* output file -> the rows written to it, for the files opened
    exit_code,        \* Optional: the code of typer.Exit
    console,          \* the messages printed
    category,         \* Optional: the dataset a preview shows
    rows,             \* preview: the raw rows read from the dataset
    enriched,         \* preview: Optional, what enrich_rows returned
    table             \* preview: Optional, the table printed

vars == <<exists, pc, nread, legislators, bills, votes, vote_results, legislator_rows,
          bill_rows, outputs, exit_code, console, category, rows, enriched, table>>

DATASETS == {"bills", "legislators", "votes", "vote_results"}
COMPUTED_PREVIEWS == {"legislator_summary", "bill_summary"}

Stmt(op, arg) == [op |-> op, arg |-> arg]
At(op, arg) == pc # << >> /\ Head(pc) = Stmt(op, arg)
Message(msg, path) == [msg |-> msg, path |-> path]

\* a slip of summarize: each file checked only when it is about to be loaded
SummarizeBodyLateChecks ==
    <<Stmt("require", "legislators"), Stmt("load", "legislators"),
      Stmt("require", "bills"), Stmt("load", "bills"),
      Stmt("require", "votes"), Stmt("load", "votes"),
      Stmt("require", "vote_results"), Stmt("load", "vote_results"),
      Stmt("compute", "legislators"), Stmt("compute", "bills"),
      Stmt("write", "legislators"), Stmt("write", "bills")>>

\* the body of summarize
SummarizeBody ==
    <<Stmt("require", "bills"), Stmt("require", "legislators"), Stmt("require", "votes"),
      Stmt("require", "vote_results"),
      Stmt("load", "legislators"), Stmt("load", "bills"), Stmt("load", "votes"),
      Stmt("load", "vote_results"),
      Stmt("compute", "legislators"), Stmt("compute", "bills"),
      Stmt("write", "legislators"), Stmt("write", "bills")>>

\* the body of preview_dataset, with the lookups enrich_rows loads, per category
PreviewBody(cat) ==
    CASE cat = "legislators" ->
           <<Stmt("require", "legislators"), Stmt("read", "legislators"),
             Stmt("enrich", "legislators"), Stmt("render", "legislators")>>
      [] cat = "bills" ->
           <<Stmt("require", "bills"), Stmt("read", "bills"),
             Stmt("require", "legislators"), Stmt("load", "legislators"),
             Stmt("enrich", "bills"), Stmt("render", "bills")>>
      [] cat = "votes" ->
           <<Stmt("require", "votes"), Stmt("read", "votes"),
             Stmt("require", "bills"), Stmt("load", "bills"),
             Stmt("enrich", "votes"), Stmt("render", "votes")>>
      [] cat = "vote_results" ->
           <<Stmt("require", "vote_results"), Stmt("read", "vote_results"),
             Stmt("require", "legislators"), Stmt("load", "legislators"),
             Stmt("require", "bills"), Stmt("load", "bills"),
             Stmt("require", "votes"), Stmt("load", "votes"),
             Stmt("enrich", "vote_results"), Stmt("render", "vote_results")>>
      [] cat = "legislator_summary" ->
           <<Stmt("require", "legislators"), Stmt("require", "votes"),
             Stmt("require", "vote_results"),
             Stmt("load", "legislators"), Stmt("load", "vote_results"), Stmt("load", "votes"),
             Stmt("compute", "legislators"), Stmt("render", "legislator_summary")>>
      [] cat = "bill_summary" ->
           <<Stmt("require", "legislators"), Stmt("require", "bills"), Stmt("require", "votes"),
             Stmt("require", "vote_results"),
             Stmt("load", "legislators"), Stmt("load", "bills"), Stmt("load", "vote_results"),
             Stmt("load", "votes"),
             Stmt("compute", "bills"), Stmt("render", "bill_summary")>>

\* the state at the entry of a command, for one content of data_dir
InitCommand(files, body) ==
    /\ exists = files
    /\ pc = body
    /\ nread = 0
    /\ legislators = << >>
    /\ bills = << >>
    /\ votes = EmptyDict
    /\ vote_results = << >>
    /\ legislator_rows = None
    /\ bill_rows = None
    /\ outputs = EmptyDict
    /\ exit_code = None
    /\ console = << >>
    /\ category = None
    /\ rows = << >>
    /\ enriched = None
    /\ table = None

loaded == <<legislators, bills, votes, vote_results>>
computed == <<legislator_rows, bill_rows>>
previewed == <<category, rows, enriched, table>>

\* ---------------------------------------------------------------- steps
\* require_exists(path)
RequireExists ==
    /\ pc # << >>
    /\ Head(pc).op = "require"
    /\ IF Head(pc).arg \in exists
       THEN /\ pc' = Tail(pc)
            /\ UNCHANGED <<exit_code, console>>
       ELSE /\ console' = Append(console, Message("Missing required file", Head(pc).arg))
            /\ exit_code' = Some(1)
            /\ pc' = << >>
    /\ UNCHANGED <<exists, nread, loaded, computed, outputs, previewed>>

\* load_legislators reads one row
LoadLegislatorsRow(row) ==
    /\ At("load", "legislators")
    /\ nread < MaxLegislators
    /\ nread' = nread + 1
    /\ legislators' = load_legislators_row(legislators, row)
    /\ UNCHANGED <<exists, pc, bills, votes, vote_results, computed, outputs, exit_code,
                   console, previewed>>

\* load_bills reads one row
LoadBillsRow(row) ==
    /\ At("load", "bills")
    /\ nread < MaxBills
    /\ nread' = nread + 1
    /\ bills' = load_bills_row(bills, row)
    /\ UNCHANGED <<exists, pc, legislators, votes, vote_results, computed, outputs, exit_code,
                   console, previewed>>

\* load_votes reads one row
LoadVotesRow(row) ==
    /\ At("load", "votes")
    /\ nread < MaxVotes
    /\ nread' = nread + 1
    /\ votes' = load_votes_row(votes, row)
    /\ UNCHANGED <<exists, pc, legislators, bills, vote_results, computed, outputs, exit_code,
                   console, previewed>>

\* load_vote_results reads one row
LoadVoteResultsRow(row) ==
    /\ At("load", "vote_results")
    /\ nread < MaxResults
    /\ nread' = nread + 1
    /\ vote_results' = load_vote_results_row(vote_results, row)
    /\ UNCHANGED <<exists, pc, legislators, bills, votes, computed, outputs, exit_code,
                   console, previewed>>

\* a loader reaches the end of its file and returns
LoadEnd ==
    /\ pc # << >>
    /\ Head(pc).op = "load"
    /\ nread' = 0
    /\ pc' = Tail(pc)
    /\ UNCHANGED <<exists, loaded, computed, outputs, exit_code, console, previewed>>

\* compute_legislator_summary(legislators, vote_results, votes)
ComputeLegislatorSummary ==
    /\ At("compute", "legislators")
    /\ legislator_rows' = Some(compute_legislator_summary(legislators, vote_results, votes))
    /\ pc' = Tail(pc)
    /\ UNCHANGED <<exists, nread, loaded, bill_rows, outputs, exit_code, console, previewed>>

\* compute_bill_summary(bills, legislators, vote_results, votes)
ComputeBillSummary ==
    /\ At("compute", "bills")
    /\ bill_rows' = Some(compute_bill_summary(bills, legislators, vote_results, votes))
    /\ pc' = Tail(pc)
    /\ UNCHANGED <<exists, nread, loaded, legislator_rows, outputs, exit_code, console, previewed>>

\* write_csv(legislator_output, ..., legislator_rows)
WriteLegislatorCsv ==
    /\ At("write", "legislators")
    /\ outputs' = DictSet(outputs, "legislator_output", Val(legislator_rows))
    /\ pc' = Tail(pc)
    /\ UNCHANGED <<exists, nread, loaded, computed, exit_code, console, previewed>>

\* write_csv(bill_output, ..., bill_rows) and the two closing messages
WriteBillCsv ==
    /\ At("write", "bills")
    /\ outputs' = DictSet(outputs, "bill_output", Val(bill_rows))
    /\ console' = console \o <<Message("Wrote legislator rows", "legislator_output"),
                               Message("Wrote bill rows", "bill_output")>>
    /\ pc' = Tail(pc)
    /\ UNCHANGED <<exists, nread, loaded, computed, exit_code, previewed>>

\* ---------------------------------------------------------------- preview
\* preview: normalize_category / select_category give a category or None
SelectCategory(choice) ==
    /\ At("select", "category")
    /\ IF IsNone(choice)
       THEN /\ console' = Append(console, Message("No category selected, exiting.", ""))
            /\ exit_code' = Some(1)
            /\ pc' = << >>
            /\ UNCHANGED category
       ELSE /\ category' = choice
            /\ pc' = PreviewBody(Val(choice))
            /\ UNCHANGED <<exit_code, console>>
    /\ UNCHANGED <<exists, nread, loaded, computed, outputs, rows, enriched, table>>

\* itertools.islice(read_csv(data_path), limit) yields one more row; the rows of a
\* file have the columns of its header
ReadRow(cat, row) ==
    /\ At("read", cat)
    /\ nread < MaxPreviewRows
    /\ rows # << >> => DOMAIN row = DOMAIN rows[1]
    /\ nread' = nread + 1
    /\ rows' = Append(rows, row)
    /\ UNCHANGED <<exists, pc, loaded, computed, outputs, exit_code, console, category, enriched,
                   table>>

\* the rows are read: a file without rows ends the preview with a warning
ReadEnd ==
    /\ pc # << >>
    /\ Head(pc).op = "read"
    /\ nread' = 0
    /\ IF rows = << >>
       THEN /\ console' = Append(console, Message("No rows found", Head(pc).arg))
            /\ pc' = << >>
       ELSE /\ pc' = Tail(pc)
            /\ UNCHANGED console
    /\ UNCHANGED <<exists, loaded, computed, outputs, exit_code, category, rows, enriched, table>>

\* the enrich closures of enrich_rows applied to the rows read
EnrichRows ==
    /\ pc # << >>
    /\ Head(pc).op = "enrich"
    /\ enriched' = Some(enrich_rows(rows, Val(category), legislators, bills, votes))
    /\ pc' = Tail(pc)
    /\ UNCHANGED <<exists, nread, loaded, computed, outputs, exit_code, console, category, rows,
                   table>>

\* str(n) of an int
RECURSIVE NatText(_)
NatText(n) ==
    LET d == <<"0", "1", "2", "3", "4", "5", "6", "7", "8", "9">>[(n % 10) + 1]
    IN  IF n < 10 THEN << d >> ELSE Append(NatText(n \div 10), d)
IntText(n) == IF n < 0 THEN <<"-">> \o NatText(0 - n) ELSE NatText(n)

\* format_cell(row.get(field))
format_cell(row, field) ==
    IF field \notin DOMAIN row THEN << >>
    ELSE IF ~IsNone(row[field].int) THEN IntText(Val(row[field].int))
    ELSE Val(row[field].str)

\* the columns a header can have, in the order the files list them
ColumnOrder ==
    <<"id", "name", "title", "Primary Sponsor", "primary_sponsor", "sponsor_id",
      "legislator_id", "vote_id", "vote_type", "bill_id", "sponsor_name", "legislator_name",
      "bill_title">>
InColumns(S) == LET Test(c) == c \in S IN SelectSeq(ColumnOrder, Test)
NotIn(fields, base) == LET Test(f) == \A i \in 1..Len(base) : base[i] # f IN SelectSeq(fields, Test)

\* base_fieldnames + [f for f in extra_fields if f not in base_fieldnames]
preview_fieldnames(raw, extra_fields) ==
    LET base_fieldnames == InColumns(DOMAIN raw[1])
    IN  base_fieldnames \o NotIn(extra_fields, base_fieldnames)

LegislatorSummaryCells(r) ==
    [id |-> IntCell(r.id), name |-> StrCell(r.name),
     num_supported_bills |-> IntCell(r.num_supported_bills),
     num_opposed_bills |-> IntCell(r.num_opposed_bills)]
BillSummaryCells(r) ==
    [id |-> IntCell(r.id), title |-> StrCell(r.title),
     supporter_count |-> IntCell(r.supporter_count),
     opposer_count |-> IntCell(r.opposer_count), primary_sponsor |-> StrCell(r.primary_sponsor)]

\* summary[:limit]
Limit(summary) == SubSeq(summary, 1, IF Len(summary) < MaxPreviewRows THEN Len(summary)
                                     ELSE MaxPreviewRows)

Table(fieldnames, cellrows) ==
    [fieldnames |-> fieldnames,
     cells |-> [i \in 1..Len(cellrows) |->
                  [j \in 1..Len(fieldnames) |-> format_cell(cellrows[i], fieldnames[j])]]]

\* the table preview_dataset prints
Render ==
    /\ pc # << >>
    /\ Head(pc).op = "render"
    /\ table' = Some(
         IF Head(pc).arg = "legislator_summary"
         THEN LET shown == Limit(Val(legislator_rows))
              IN  Table(<<"id", "name", "num_supported_bills", "num_opposed_bills">>,
                        [i \in 1..Len(shown) |-> LegislatorSummaryCells(shown[i])])
         ELSE IF Head(pc).arg = "bill_summary"
         THEN LET shown == Limit(Val(bill_rows))
              IN  Table(<<"id", "title", "supporter_count", "opposer_count", "primary_sponsor">>,
                        [i \in 1..Len(shown) |-> BillSummaryCells(shown[i])])
         ELSE Table(preview_fieldnames(rows, Val(enriched).extra_fields), Val(enriched).rows))
    /\ pc' = Tail(pc)
    /\ UNCHANGED <<exists, nread, loaded, computed, outputs, exit_code, console, category, rows,
                   enriched>>

\* ---------------------------------------------------------------- inputs
\* rows of legislators.csv (header id,name)
LegislatorRow(id, name) == [id |-> id, name |-> name]
\* rows of bills.csv (header id,title,sponsor_id)
BillRow(id, title, sponsor) == [id |-> id, title |-> title, sponsor_id |-> sponsor]
\* rows of votes.csv (header id,bill_id)
VoteRow(id, bill_id) == [id |-> id, bill_id |-> bill_id]
\* rows of vote_results.csv (header id,legislator_id,vote_id,vote_type)
ResultRow(legislator_id, vote_id, vote_type) ==
    [id |-> <<"7">>, legislator_id |-> legislator_id, vote_id |-> vote_id, vote_type |-> vote_type]

\* legislators 1 and 2, bills 10 and 20, votes 100 and 200; the last row of each
\* set is one the loader drops
LegislatorRows ==
    {LegislatorRow(<<"1">>, <<" ", "A">>), LegislatorRow(<<"2">>, <<"B">>),
     LegislatorRow(<<"x">>, <<"E">>)}
BillRows ==
    {BillRow(<<"1", "0">>, <<"P">>, <<"1">>), BillRow(<<"2", "0">>, <<"Q", " ">>, << >>),
     BillRow(<< >>, <<"R">>, <<"2">>)}
VoteRows ==
    {VoteRow(<<"1", "0", "0">>, <<"1", "0">>), VoteRow(<<"2", "0", "0">>, <<"1", "0">>),
     VoteRow(<<"2", "0", "0">>, <<"2", "0">>), VoteRow(<<"1", "0", "0">>, <<"?">>)}
ResultRows ==
    ({ResultRow(l, v, t) : l \in {<<"1">>, <<"2">>},
                           v \in {<<"1", "0", "0">>, <<"2", "0", "0">>},
                           t \in {<<"1">>, <<"2">>}}
       \ {ResultRow(<<"2">>, <<"2", "0", "0">>, <<"2">>)})
      \cup {ResultRow(<<"1">>, <<"1", "0", "0">>, <<"3">>),
            ResultRow(<<"1">>, <<"1", "0", "0">>, << >>)}

\* ---------------------------------------------------------------- summarize
\* summarize with its four files present, followed up to the two summaries: the
\* aggregation over every content of the files within the bounds
Init == InitCommand(DATASETS, SummarizeBody)

Next ==
    \/ RequireExists
    \/ \E row \in LegislatorRows : LoadLegislatorsRow(row)
    \/ \E row \in BillRows : LoadBillsRow(row)
    \/ \E row \in VoteRows : LoadVotesRow(row)
    \/ \E row \in ResultRows : LoadVoteResultsRow(row)
    \/ LoadEnd
    \/ ComputeLegislatorSummary
    \/ ComputeBillSummary

Spec == Init /\ [][Next]_vars

\* summarize for every content of data_dir, followed to its end
SummarizeLegislatorRows == {LegislatorRow(<<"1">>, <<" ", "A">>), LegislatorRow(<<"x">>, <<"E">>)}
SummarizeBillRows == {BillRow(<<"1", "0">>, <<"P">>, <<"1">>), BillRow(<< >>, <<"R">>, <<"2">>)}
SummarizeVoteRows == {VoteRow(<<"1", "0", "0">>, <<"1", "0">>), VoteRow(<<"1", "0", "0">>, <<"?">>)}
SummarizeResultRows ==
    {ResultRow(<<"1">>, <<"1", "0", "0">>, <<"1">>), ResultRow(<<"1">>, <<"1", "0", "0">>, << >>)}

InitSummarize == \E files \in SUBSET DATASETS : InitCommand(files, SummarizeBody)

NextSummarize ==
    \/ RequireExists
    \/ \E row \in SummarizeLegislatorRows : LoadLegislatorsRow(row)
    \/ \E row \in SummarizeBillRows : LoadBillsRow(row)
    \/ \E row \in SummarizeVoteRows : LoadVotesRow(row)
    \/ \E row \in SummarizeResultRows : LoadVoteResultsRow(row)
    \/ LoadEnd
    \/ ComputeLegislatorSummary
    \/ ComputeBillSummary
    \/ WriteLegislatorCsv
    \/ WriteBillCsv

SpecSummarize == InitSummarize /\ [][NextSummarize]_vars

\* ---------------------------------------------------------------- preview
\* legislators 0 and 1; bills 10 and 20; the files previewed may already have a
\* column of the name of a derived one
PreviewLegislatorRows ==
    {LegislatorRow(<<"0">>, <<"Z">>), LegislatorRow(<<"1">>, <<"A">>),
     LegislatorRow(<< >>, <<"E">>)}
PreviewBillRows ==
    {BillRow(<<"1", "0">>, <<"P">>, <<"0">>), BillRow(<<"1", "0">>, <<"P">>, <<"1">>),
     BillRow(<<"1", "0">>, <<"P">>, <<"9">>), BillRow(<<"1", "0">>, <<"P">>, << >>),
     BillRow(<<"x">>, <<"P">>, <<"1">>),
     [id |-> <<"1", "0">>, title |-> <<"P">>, primary_sponsor |-> <<"1">>, sponsor_id |-> <<"0">>],
     [id |-> <<"1", "0">>, title |-> <<"P">>, sponsor_id |-> <<"1">>, sponsor_name |-> <<"X">>]}
PreviewVoteRows ==
    {VoteRow(<<"1", "0", "0">>, <<"1", "0">>), VoteRow(<<"1", "0", "0">>, <<"3", "0">>),
     [id |-> <<"1", "0", "0">>, bill_id |-> <<"1", "0">>, bill_title |-> <<"X">>]}
PreviewResultRows ==
    {ResultRow(<<"1">>, <<"1", "0", "0">>, <<"1">>), ResultRow(<<"5">>, <<"3", "0", "0">>, <<"2">>),
     [id |-> <<"7">>, legislator_id |-> <<"1">>, vote_id |-> <<"1", "0", "0">>,
      vote_type |-> <<"1">>, bill_id |-> <<"7">>]}
PreviewRows(cat) ==
    CASE cat = "legislators" -> PreviewLegislatorRows
      [] cat = "bills" -> PreviewBillRows
      [] cat = "votes" -> PreviewVoteRows
      [] cat = "vote_results" -> PreviewResultRows

InitPreview ==
    \E files \in SUBSET DATASETS : InitCommand(files, <<Stmt("select", "category")>>)

NextPreview ==
    \/ \E choice \in {None} \cup {Some(c) : c \in DATASETS \cup COMPUTED_PREVIEWS} :
         SelectCategory(choice)
    \/ RequireExists
    \/ \E cat \in DATASETS : \E row \in PreviewRows(cat) : ReadRow(cat, row)
    \/ ReadEnd
    \/ \E row \in PreviewLegislatorRows : LoadLegislatorsRow(row)
    \/ \E row \in BillRows : LoadBillsRow(row)
    \/ \E row \in VoteRows : LoadVotesRow(row)
    \/ \E row \in SummarizeResultRows : LoadVoteResultsRow(row)
    \/ LoadEnd
    \/ EnrichRows
    \/ ComputeLegislatorSummary
    \/ ComputeBillSummary
    \/ Render

SpecPreview == InitPreview /\ [][NextPreview]_vars

\* ---------------------------------------------------------------- properties
\* the vote results whose vote_id is a key of the vote lookup
Resolved == {i \in DOMAIN vote_results : vote_results[i].vote_id \in DOMAIN votes}
BillOfResult(i) == votes[vote_results[i].vote_id].bill_id
\* the bills legislator L has a result of vote_type t on
BillsVoted(L, t) ==
    {BillOfResult(i) : i \in {j \in Resolved : /\ vote_results[j].legislator_id = L
                                                /\ vote_results[j].vote_type = t}}
\* the legislators with a result of vote_type t on a vote of bill b
LegislatorsVoting(b, t) ==
    {vote_results[i].legislator_id : i \in {j \in Resolved : /\ BillOfResult(j) = b
                                                              /\ vote_results[j].vote_type = t}}
\* the legislators with any result on a vote of bill b
Voters(b) == {vote_results[i].legislator_id : i \in {j \in Resolved : BillOfResult(j) = b}}
Occurrences(seq, id) == Cardinality({i \in DOMAIN seq : seq[i].id = id})
Ascending(seq) == \A i \in 1..(Len(seq) - 1) : seq[i].id <= seq[i + 1].id
RECURSIVE SumOf(_, _)
SumOf(seq, field) == IF seq = << >> THEN 0 ELSE seq[1][field] + SumOf(Tail(seq), field)
RemoveAt(seq, i) == SubSeq(seq, 1, i - 1) \o SubSeq(seq, i + 1, Len(seq))
Orders(n) == {f \in [1..n -> 1..n] : \A i, j \in 1..n : f[i] = f[j] => i = j}
Permuted(seq, f) == [i \in 1..Len(seq) |-> seq[f[i]]]

\* C1: every loaded legislator has a row, and a row of legislator L counts the
\* distinct bills L has a vote_type 1 (2) result on, through any vote of the
\* lookup: the same bill supported several times counts once, other vote types
\* count for nothing.
C1_LegislatorCounts ==
    ~IsNone(legislator_rows) =>
        LET out == Val(legislator_rows)
        IN  /\ \A i \in DOMAIN legislators : \E k \in DOMAIN out : out[k].id = legislators[i].id
            /\ \A k \in DOMAIN out :
                 /\ out[k].num_supported_bills = Cardinality(BillsVoted(out[k].id, 1))
                 /\ out[k].num_opposed_bills = Cardinality(BillsVoted(out[k].id, 2))

\* a legislator supported one bill through two different votes and has the count 1
C1_Witness ==
    /\ ~IsNone(legislator_rows)
    /\ \E i, j \in Resolved :
         /\ vote_results[i].vote_id # vote_results[j].vote_id
         /\ vote_results[i].legislator_id = vote_results[j].legislator_id
         /\ vote_results[i].vote_type = 1 /\ vote_results[j].vote_type = 1
         /\ BillOfResult(i) = BillOfResult(j)
         /\ \E k \in DOMAIN Val(legislator_rows) :
              /\ Val(legislator_rows)[k].id = vote_results[i].legislator_id
              /\ Val(legislator_rows)[k].num_supported_bills = 1

\* C2: a row of bill B counts the distinct legislators with a vote_type 1 (2)
\* result on any vote of B: a legislator supporting B through two votes counts once.
C2_BillCounts ==
    ~IsNone(bill_rows) =>
        \A k \in DOMAIN Val(bill_rows) :
            /\ Val(bill_rows)[k].supporter_count
                 = Cardinality(LegislatorsVoting(Val(bill_rows)[k].id, 1))
            /\ Val(bill_rows)[k].opposer_count
                 = Cardinality(LegislatorsVoting(Val(bill_rows)[k].id, 2))

\* a legislator supported a loaded bill through two different votes and the bill
\* has one supporter
C2_Witness ==
    /\ ~IsNone(bill_rows)
    /\ \E i, j \in Resolved :
         /\ vote_results[i].vote_id # vote_results[j].vote_id
         /\ vote_results[i].legislator_id = vote_results[j].legislator_id
         /\ vote_results[i].vote_type = 1 /\ vote_results[j].vote_type = 1
         /\ BillOfResult(i) = BillOfResult(j)
         /\ \E k \in DOMAIN Val(bill_rows) :
              /\ Val(bill_rows)[k].id = BillOfResult(i)
              /\ Val(bill_rows)[k].supporter_count = 1

\* C3 as claimed: supporter_count + opposer_count of a bill is at most the number
\* of distinct legislators with a result on the bill's votes, for every input.
C3_Original ==
    ~IsNone(bill_rows) =>
        \A k \in DOMAIN Val(bill_rows) :
            Val(bill_rows)[k].supporter_count + Val(bill_rows)[k].opposer_count
                <= Cardinality(Voters(Val(bill_rows)[k].id))

\* C3 amended: supporter_count + opposer_count of a bill is at most the number of
\* distinct legislators with a result on the bill's votes plus the number of
\* legislators with both a vote_type 1 and a vote_type 2 result on the bill; each
\* count alone is at most the number of those legislators.
C3_CountsBound ==
    ~IsNone(bill_rows) =>
        \A k \in DOMAIN Val(bill_rows) :
            LET b == Val(bill_rows)[k].id
                both == LegislatorsVoting(b, 1) \cap LegislatorsVoting(b, 2)
            IN  /\ Val(bill_rows)[k].supporter_count + Val(bill_rows)[k].opposer_count
                     <= Cardinality(Voters(b)) + Cardinality(both)
                /\ Val(bill_rows)[k].supporter_count <= Cardinality(Voters(b))
                /\ Val(bill_rows)[k].opposer_count <= Cardinality(Voters(b))

\* a legislator has both a support and an oppose result on a loaded bill, whose
\* two counts add up to more than its voters
C3_Witness ==
    /\ ~IsNone(bill_rows)
    /\ \E k \in DOMAIN Val(bill_rows) :
         /\ LegislatorsVoting(Val(bill_rows)[k].id, 1) \cap LegislatorsVoting(Val(bill_rows)[k].id, 2) # {}
         /\ Val(bill_rows)[k].supporter_count + Val(bill_rows)[k].opposer_count
              = Cardinality(Voters(Val(bill_rows)[k].id)) + 1

\* C4: a vote result whose vote_id is no key of the vote lookup contributes to no
\* summary: both summaries are those of the vote results without it.
C4_UnresolvedIgnored ==
    \A i \in DOMAIN vote_results \ Resolved :
        /\ ~IsNone(legislator_rows) =>
             Val(legislator_rows)
               = compute_legislator_summary(legislators, RemoveAt(vote_results, i), votes)
        /\ ~IsNone(bill_rows) =>
             Val(bill_rows)
               = compute_bill_summary(bills, legislators, RemoveAt(vote_results, i), votes)

\* both summaries are computed from vote results of which one resolves and is
\* counted and one does not resolve, its legislator and bill being loaded
C4_Witness ==
    /\ ~IsNone(legislator_rows) /\ ~IsNone(bill_rows)
    /\ \E i \in DOMAIN vote_results \ Resolved :
         \E k \in DOMAIN Val(legislator_rows) :
             Val(legislator_rows)[k].id = vote_results[i].legislator_id
    /\ SumOf(Val(legislator_rows), "num_supported_bills") > 0
    /\ SumOf(Val(bill_rows), "supporter_count") > 0

\* C6 as claimed: the bill summary is ascending by id and every loaded bill, and
\* so every bill id, is in exactly one row.
C6_Original ==
    ~IsNone(bill_rows) =>
        /\ Ascending(Val(bill_rows))
        /\ \A i \in DOMAIN bills : Occurrences(Val(bill_rows), bills[i].id) = 1

\* C6 amended: the bill summary is ascending (not strictly) by id and has one row
\* per loaded bill record: an id is in as many rows as loaded bills have it, so
\* in one row when the loaded ids are distinct.
C6_OneRowPerLoadedBill ==
    ~IsNone(bill_rows) =>
        /\ Ascending(Val(bill_rows))
        /\ Len(Val(bill_rows)) = Len(bills)
        /\ \A i \in DOMAIN bills :
             Occurrences(Val(bill_rows), bills[i].id) = Occurrences(bills, bills[i].id)
        /\ \A k \in DOMAIN Val(bill_rows) :
             \E i \in DOMAIN bills : /\ bills[i].id = Val(bill_rows)[k].id
                                     /\ bills[i].title = Val(bill_rows)[k].title

\* two loaded bills have one id and the summary has a row for each
C6_Witness ==
    /\ ~IsNone(bill_rows)
    /\ \E i, j \in DOMAIN bills : i # j /\ bills[i].id = bills[j].id
    /\ Len(Val(bill_rows)) = 2

\* C9: the legislator summary has one row per loaded legislator, ascending by id,
\* and the row of a legislator no vote result references has both counts 0.
C9_TotalProjection ==
    ~IsNone(legislator_rows) =>
        LET out == Val(legislator_rows)
        IN  /\ Ascending(out)
            /\ Len(out) = Len(legislators)
            /\ \A i \in DOMAIN legislators :
                 Occurrences(out, legislators[i].id) = Occurrences(legislators, legislators[i].id)
            /\ \A k \in DOMAIN out :
                 (\A i \in DOMAIN vote_results : vote_results[i].legislator_id # out[k].id)
                     => out[k].num_supported_bills = 0 /\ out[k].num_opposed_bills = 0

\* legislators loaded in descending order, one of them referenced by a counted
\* result and the other by no result
C9_Witness ==
    /\ ~IsNone(legislator_rows)
    /\ Len(legislators) = 2 /\ legislators[1].id > legislators[2].id
    /\ \E k \in DOMAIN Val(legislator_rows) :
         /\ \A i \in DOMAIN vote_results : vote_results[i].legislator_id # Val(legislator_rows)[k].id
         /\ Val(legislator_rows)[k].num_supported_bills = 0
    /\ SumOf(Val(legislator_rows), "num_supported_bills") > 0

\* legislator ids are unique, bill ids are unique, and every resolved vote result
\* is of a loaded legislator and of a vote of a loaded bill
C10_Consistent ==
    /\ \A i, j \in DOMAIN legislators : legislators[i].id = legislators[j].id => i = j
    /\ \A i, j \in DOMAIN bills : bills[i].id = bills[j].id => i = j
    /\ \A r \in Resolved :
         /\ \E i \in DOMAIN legislators : legislators[i].id = vote_results[r].legislator_id
         /\ \E i \in DOMAIN bills : bills[i].id = BillOfResult(r)

\* C10: on consistent data the supported (opposed) counts of the legislator summary
\* and the supporter (opposer) counts of the bill summary have the same sum, and
\* both summaries are the same for every order of the vote results.
C10_CrossSummary ==
    (~IsNone(legislator_rows) /\ ~IsNone(bill_rows) /\ C10_Consistent) =>
        /\ SumOf(Val(legislator_rows), "num_supported_bills") = SumOf(Val(bill_rows), "supporter_count")
        /\ SumOf(Val(legislator_rows), "num_opposed_bills") = SumOf(Val(bill_rows), "opposer_count")
        /\ \A f \in Orders(Len(vote_results)) :
             /\ compute_legislator_summary(legislators, Permuted(vote_results, f), votes)
                  = Val(legislator_rows)
             /\ compute_bill_summary(bills, legislators, Permuted(vote_results, f), votes)
                  = Val(bill_rows)

\* consistent data with a support and an oppose counted, of two different results
C10_Witness ==
    /\ ~IsNone(legislator_rows) /\ ~IsNone(bill_rows) /\ C10_Consistent
    /\ SumOf(Val(bill_rows), "supporter_count") = 1
    /\ SumOf(Val(legislator_rows), "num_opposed_bills") = 1
    /\ vote_results[1] # vote_results[2]

\* C7: summarize with one of its four files missing does nothing but check the
\* files: it loads nothing, computes nothing, opens no output file, and ends with
\* the missing file reported and exit code 1; and on every run an output file is
\* opened only when both summaries are computed.
C7_FailFast ==
    /\ exists # DATASETS =>
         /\ pc # << >> => Head(pc).op = "require"
         /\ nread = 0
         /\ legislators = << >> /\ bills = << >> /\ votes = EmptyDict /\ vote_results = << >>
         /\ IsNone(legislator_rows) /\ IsNone(bill_rows)
         /\ outputs = EmptyDict
         /\ pc = << >> =>
              /\ exit_code = Some(1)
              /\ \E d \in DATASETS \ exists : console = <<Message("Missing required file", d)>>
    /\ outputs # EmptyDict => ~IsNone(legislator_rows) /\ ~IsNone(bill_rows)

\* the run has ended on the missing legislators.csv, bills.csv being there
C7_Witness ==
    /\ "legislators" \notin exists /\ "bills" \in exists
    /\ pc = << >>
    /\ exit_code = Some(1)
    /\ console = <<Message("Missing required file", "legislators")>>

\* C5: the sponsor_name the preview of bills attaches to a row with a parseable id
\* is the primary_sponsor the bill summary has for the bill of that row, the
\* legislators being the same.
C5_SponsorAgreement ==
    (~IsNone(enriched) /\ category = Some("bills")) =>
        \A i \in DOMAIN rows :
            ~IsNone(parse_int(Get(rows[i], "id"))) =>
                Val(enriched).rows[i]["sponsor_name"]
                  = StrCell(compute_bill_summary(load_bills(<<rows[i]>>), legislators,
                                                 << >>, EmptyDict)[1].primary_sponsor)

\* C8: in what enrich_rows returns every column of the raw row has its value.
C8_ColumnsKept ==
    ~IsNone(enriched) =>
        \A i \in DOMAIN rows :
            \A c \in DOMAIN rows[i] : Val(enriched).rows[i][c] = StrCell(rows[i][c])

====
